---- MODULE Spec2Model ----
(***************************************************************************)
(* Model of the telemetry-correlated request pipeline of                   *)
(* unified-telemetry-with-otel: the two request handlers                   *)
(* process_transaction and maintenance_task, in the OpenTelemetry variant  *)
(* (src/app4.py, variant = "otel") and in the Elastic APM variant          *)
(* (src/config_files_elk/app5-elk.py, variant = "elk").                    *)
(*                                                                         *)
(* Both handlers are plain `def` endpoints, which FastAPI runs in a thread *)
(* pool: requests interleave statement by statement.  Every action below   *)
(* is one statement (or one run of request-local statements) of one        *)
(* request r.                                                              *)
(***************************************************************************)
EXTENDS Integers, Sequences, FiniteSets, Bags

\* ------------------------------------------------------------------ bounds
\* Number of requests served (each request slot is used once).
NumReq == 2

Reqs == 1 .. NumReq
\* fail_rate in [0, 1], in halves: 0.0, 0.5 and 1.0.
FailRates == {0, 1, 2}
\* fail_rate = 1.0
FullRate == CHOOSE f \in FailRates : \A g \in FailRates : g <= f
\* random.random() lies in [0, 1), in halves: the value 1.0 is never drawn.
Draws == {d \in FailRates : d < FullRate}
\* The request bodies: txn.amount (a float; sqlite stores a float in a REAL
\* column unchanged) and txn.currency.
Bodies == {[amount |-> 100, currency |-> "EUR"], [amount |-> 250, currency |-> "USD"]}
\* mult of maintenance_task: any integer, negative and zero included.
Mults == {-1, 0, 1}
\* (time.perf_counter() - start) * 1000: a monotonic clock, never negative.
Durations == {0, 3}
Variants == {"otel", "elk"}

\* ------------------------------------------------------------------ state
VARIABLES
    variant,   \* which of the two source files runs
    pc,        \* pc[r]: position of request r in its handler
    req,       \* req[r]: the inputs of request r
    duration,  \* duration[r]: the elapsed time maintenance_task measured
    resp,      \* resp[r]: the HTTP response of request r
    active,    \* the "current span" context variable, one slot per context
    tokens,    \* tokens[r]: values saved by attach(), restored by detach()
    spans,     \* every span of the process, by span id <<r, k>>
    apm,       \* apm[r]: the Elastic APM transaction of request r (elk only)
    conns,     \* conns[r]: the sqlite3 connection get_conn() gave request r
    tables,    \* names of the tables that exist in DB_PATH
    table,     \* committed rows of the table `transactions`
    lock,      \* request whose connection holds sqlite's write lock, or 0
    samples,   \* bag of the metric samples handed to the meter
    events     \* events[r]: the telemetry and database calls r made, in order

vars == <<variant, pc, req, duration, resp, active, tokens, spans, apm,
          conns, tables, table, lock, samples, events>>

NoSpan == <<0, 0>>
NoTrace == 0
SpanIds == Reqs \X {1, 2}
\* The with-blocks of a handler: the outer one and the nested one.
RootOf(r) == <<r, 1>>
ChildOf(r) == <<r, 2>>

NoReq == [kind |-> "none", amount |-> 0, currency |-> "", fail_rate |-> 0, mult |-> 0]
NoResp == [code |-> 0, status |-> "", trace |-> NoTrace, detail |-> "",
           detail_trace |-> NoTrace, duration_ms |-> 0]
NoSpanRec == [name |-> "", parent |-> NoSpan, trace |-> NoTrace, state |-> "NONE",
              ends |-> 0, attrs |-> {}, errors |-> 0, status |-> "UNSET"]
NoApm == [state |-> "NONE", trace |-> NoTrace, labels |-> {}, result |-> "", errors |-> {}]
NoConn == [state |-> "NONE", closes |-> 0, pending |-> <<>>, commits |-> 0, lastrowid |-> 0]

\* ------------------------------------------------------- telemetry context
\* A current span kept in one process-wide variable, shared by all requests.
CtxKeyShared(r) == 1

\* Slot of the context variable that request r reads and writes.  Both SDKs
\* keep the current span in a contextvars.ContextVar and every request runs in
\* its own context, so the slot is the request's own.
CtxKey(r) == r

Current(r) == active[CtxKey(r)]

\* One entry of events[r]: the call, the span it targets, whether its target
\* (span, transaction or connection) was open when the call was made, and the
\* request's current span at that moment.
EventAt(op, sid, isOpen, cur) == [op |-> op, span |-> sid, open |-> isOpen, cur |-> cur]

Event(r, op, sid, isOpen) == EventAt(op, sid, isOpen, Current(r))

\* span.is_recording()
Recording(sp) == sp.state = "OPEN"

IsOpen(sid) == sid # NoSpan /\ Recording(spans[sid])

\* A new trace id: a random 128-bit number, which no other request draws.
NewTraceId(r) == r

\* Trace id of a new span: inherited from the parent; a span without a parent
\* starts a new trace (otel) or belongs to the request's transaction (elk).
TraceFor(r, parent) ==
    IF parent # NoSpan THEN spans[parent].trace
    ELSE IF variant = "elk" THEN apm[r].trace
    ELSE NewTraceId(r)

NewSpan(r, name, parent) ==
    [name |-> name, parent |-> parent, trace |-> TraceFor(r, parent), state |-> "OPEN",
     ends |-> 0, attrs |-> {}, errors |-> 0, status |-> "UNSET"]

\* span.set_attribute: ignored once the span has ended.
SetAttribute(sp, key, value) ==
    IF sp.state = "OPEN" THEN [sp EXCEPT !.attrs = @ \cup {<<key, value>>}] ELSE sp

\* A record_exception that attaches nothing to the span.
RecordExceptionDropped(sp) == sp

\* span.record_exception: ignored once the span has ended.
RecordException(sp) ==
    IF sp.state = "OPEN" THEN [sp EXCEPT !.errors = @ + 1] ELSE sp

\* span.set_status(Status(StatusCode.ERROR)): ignored once the span has ended.
SetStatusError(sp) ==
    IF sp.state = "OPEN" THEN [sp EXCEPT !.status = "ERROR"] ELSE sp

\* A span ended by an explicit span.end() and again by its with-block.
EndSpanTwice(sp) == [sp EXCEPT !.state = "CLOSED", !.ends = @ + 2]

\* span.end()
EndSpan(sp) == [sp EXCEPT !.state = "CLOSED", !.ends = @ + 1]

\* `with tracer.start_as_current_span(name)` / `with elasticapm.capture_span(name)`,
\* on entry: the new span sp, a child of the current span, becomes the current
\* span; the previous value is kept for the exit.
EnterSpan(r, sid, sp) ==
    /\ spans' = [spans EXCEPT ![sid] = sp]
    /\ tokens' = [tokens EXCEPT ![r] = <<Current(r)>> \o @]
    /\ active' = [active EXCEPT ![CtxKey(r)] = sid]

\* A span ended by a span.end() at the end of the block, without try/finally:
\* an exception skips it.
ExitedSpanLeftOpenOnError(sp, raised) ==
    IF raised THEN sp ELSE EndSpan(sp)

\* The span after the with-block is left.  An exception that leaves a
\* start_as_current_span block is recorded on the span and sets its status to
\* ERROR (record_exception and set_status_on_exception default to True); then the
\* span is ended.
ExitedSpan(sp, raised) ==
    EndSpan(IF raised /\ variant = "otel" THEN SetStatusError(RecordException(sp)) ELSE sp)

ExitEvents(r, sid, raised) ==
    (IF raised /\ variant = "otel"
       THEN << Event(r, "record_exception", sid, IsOpen(sid)),
               Event(r, "set_status", sid, IsOpen(sid)) >>
       ELSE << >>)
    \o << Event(r, "end", sid, IsOpen(sid)) >>

\* An exit that ends the span but leaves it the current span.
ExitSpanNoRestore(r, sid, raised) ==
    /\ spans' = [spans EXCEPT ![sid] = ExitedSpan(@, raised)]
    /\ active' = active
    /\ tokens' = [tokens EXCEPT ![r] = Tail(@)]

\* The with-block is left, normally or by an exception: the previous current
\* span is restored and the span is ended.
ExitSpan(r, sid, raised) ==
    /\ spans' = [spans EXCEPT ![sid] = ExitedSpan(@, raised)]
    /\ active' = [active EXCEPT ![CtxKey(r)] = Head(tokens[r])]
    /\ tokens' = [tokens EXCEPT ![r] = Tail(@)]

\* elasticapm.label(**labels): labels go to the request's transaction.
Label(tx, labels) ==
    IF tx.state = "OPEN" THEN [tx EXCEPT !.labels = @ \cup labels] ELSE tx

\* elasticapm.set_transaction_result(result)
SetTransactionResult(tx, result) ==
    IF tx.state = "OPEN" THEN [tx EXCEPT !.result = result] ELSE tx

\* apm_client.capture_exception(): an error event, child of the current span.
CaptureException(tx, cur) ==
    IF tx.state = "OPEN" THEN [tx EXCEPT !.errors = @ \cup {cur}] ELSE tx

\* The ElasticAPM middleware ends the transaction once the handler is left.
EndTransaction(tx) ==
    IF variant = "elk" THEN [tx EXCEPT !.state = "CLOSED"] ELSE tx

Log(r, evs) == events' = [events EXCEPT ![r] = @ \o evs]

\* ------------------------------------------------------------- persistence
\* A row written with the default currency of TransactionModel instead of the
\* request's.
RowDefaultCurrency(id, amount, currency, status) ==
    [id |-> id, amount |-> amount, currency |-> "EUR", status |-> status]

\* The row of INSERT INTO ... (amount, currency, status) VALUES (?, ?, ?); the id
\* is the INTEGER PRIMARY KEY sqlite assigns.
Row(id, amount, currency, status) ==
    [id |-> id, amount |-> amount, currency |-> currency, status |-> status]

\* The comparison random.random() <= fail_rate.
TargetTableInclusive(d, fail_rate) == IF d <= fail_rate THEN "fake_db" ELSE "transactions"

\* The table the INSERT names: the failure injection routes the write to a
\* table that does not exist iff draw < fail_rate.
TargetTable(d, fail_rate) == IF d < fail_rate THEN "fake_db" ELSE "transactions"

\* ----------------------------------------------------------------- metrics
Sample(name, value, labels) == [name |-> name, value |-> value, labels |-> labels]

\* ------------------------------------------------------------------- Init
Init ==
    /\ variant \in Variants
    /\ pc = [r \in Reqs |-> "idle"]
    /\ req = [r \in Reqs |-> NoReq]
    /\ duration = [r \in Reqs |-> 0]
    /\ resp = [r \in Reqs |-> NoResp]
    /\ active = [r \in Reqs |-> NoSpan]
    /\ tokens = [r \in Reqs |-> << >>]
    /\ spans = [s \in SpanIds |-> NoSpanRec]
    /\ apm = [r \in Reqs |-> NoApm]
    /\ conns = [r \in Reqs |-> NoConn]
    /\ tables = {}
    /\ table = << >>
    /\ lock = 0
    /\ samples = EmptyBag
    /\ events = [r \in Reqs |-> << >>]

\* ------------------------------------------------- arrival of the requests
\* The ElasticAPM middleware begins a transaction, with a new trace id, before
\* the handler runs.
BeginTransaction(r) ==
    apm' = [apm EXCEPT ![r] = IF variant = "elk"
                                THEN [NoApm EXCEPT !.state = "OPEN", !.trace = NewTraceId(r)]
                                ELSE @]

\* POST /process_transaction with body {amount, currency} and ?fail_rate=
\* The handler reads fail_rate once, where it compares it with the draw: the
\* value the request carries is chosen there (ReadFailRate).
ReceiveTransaction(r) ==
    /\ pc[r] = "idle"
    /\ \E b \in Bodies :
         req' = [req EXCEPT ![r] = [kind |-> "txn", amount |-> b.amount,
                                    currency |-> b.currency, fail_rate |-> 0, mult |-> 0]]
    /\ BeginTransaction(r)
    /\ pc' = [pc EXCEPT ![r] = "t_root"]
    /\ UNCHANGED <<variant, duration, resp, active, tokens, spans, conns,
                   tables, table, lock, samples, events>>

\* GET /maintenance?mult=
ReceiveMaintenance(r) ==
    /\ pc[r] = "idle"
    /\ \E m \in Mults :
         req' = [req EXCEPT ![r] = [NoReq EXCEPT !.kind = "maint", !.mult = m]]
    /\ BeginTransaction(r)
    /\ pc' = [pc EXCEPT ![r] = "m_root"]
    /\ UNCHANGED <<variant, duration, resp, active, tokens, spans, conns,
                   tables, table, lock, samples, events>>

\* ----------------------------------------------------- process_transaction
\* with ...("process_payment") as span:
\*   otel: span.set_attribute("transaction.currency", txn.currency)
\*         span.set_attribute("transaction.amount", txn.amount)
\*   elk:  elasticapm.label(transaction_currency=..., transaction_amount=...)
OpenPayment(r) ==
    /\ pc[r] = "t_root"
    /\ LET sp == NewSpan(r, "process_payment", Current(r)) IN
         IF variant = "otel"
           THEN /\ EnterSpan(r, RootOf(r),
                             SetAttribute(SetAttribute(sp, "transaction.currency",
                                                       req[r].currency),
                                          "transaction.amount", req[r].amount))
                /\ Log(r, << Event(r, "start", RootOf(r), TRUE),
                             EventAt("set_attribute", RootOf(r), Recording(sp), RootOf(r)),
                             EventAt("set_attribute", RootOf(r), Recording(sp), RootOf(r)) >>)
                /\ apm' = apm
           ELSE /\ EnterSpan(r, RootOf(r), sp)
                /\ apm' = [apm EXCEPT ![r] =
                             Label(@, {<<"transaction_currency", req[r].currency>>,
                                       <<"transaction_amount", req[r].amount>>})]
                /\ Log(r, << Event(r, "start", RootOf(r), TRUE),
                             EventAt("label", NoSpan, apm[r].state = "OPEN", RootOf(r)) >>)
    /\ pc' = [pc EXCEPT ![r] = "t_fraud"]
    /\ UNCHANGED <<variant, req, duration, resp, conns, tables, table, lock, samples>>

\* with ...("fraud_check"):
OpenFraudCheck(r) ==
    /\ pc[r] = "t_fraud"
    /\ EnterSpan(r, ChildOf(r), NewSpan(r, "fraud_check", Current(r)))
    /\ Log(r, << Event(r, "start", ChildOf(r), TRUE) >>)
    /\ pc' = [pc EXCEPT ![r] = "t_burn"]
    /\ UNCHANGED <<variant, req, duration, resp, apm, conns, tables, table,
                   lock, samples>>

\* The square-root loop, which cannot raise, and the end of the fraud_check block.
CloseFraudCheck(r) ==
    /\ pc[r] = "t_burn"
    /\ ExitSpan(r, ChildOf(r), FALSE)
    /\ Log(r, ExitEvents(r, ChildOf(r), FALSE))
    /\ pc' = [pc EXCEPT ![r] = "t_conn"]
    /\ UNCHANGED <<variant, req, duration, resp, apm, conns, tables,
                   table, lock, samples>>

\* conn = get_conn(); cur = conn.cursor()
get_conn(r) ==
    /\ pc[r] = "t_conn"
    /\ conns' = [conns EXCEPT ![r] = [NoConn EXCEPT !.state = "OPEN"]]
    /\ tables' = tables \cup {"transactions"}
    /\ Log(r, << Event(r, "connect", NoSpan, TRUE) >>)
    /\ pc' = [pc EXCEPT ![r] = "t_exec"]
    /\ UNCHANGED <<variant, req, duration, resp, active, tokens, spans, apm, table, lock, samples>>

\* The fail_rate of request r is f, and the table its INSERT names is t for
\* some value random.random() can return.
ReadFailRate(r, f, t) ==
    /\ req' = [req EXCEPT ![r].fail_rate = f]
    /\ \E d \in Draws : t = TargetTable(d, f)

\* if random.random() < fail_rate: cur.execute("INSERT INTO fake_db ...")
\* else: cur.execute("INSERT INTO transactions ...")
\* The target exists and sqlite's write lock is free: the row is written inside
\* the connection's open transaction.  While another connection holds the lock
\* the call waits.
ExecuteInsert(r) ==
    /\ pc[r] = "t_exec"
    /\ \E f \in FailRates, t \in tables : ReadFailRate(r, f, t)
    /\ lock \in {0, r}
    /\ lock' = r
    /\ conns' = [conns EXCEPT ![r].pending =
                    Append(@, Row(Len(table) + Len(@) + 1, req[r].amount,
                                  req[r].currency, "SUCCESS")),
                 ![r].lastrowid = Len(table) + Len(conns[r].pending) + 1]
    /\ Log(r, << Event(r, "execute", NoSpan, conns[r].state = "OPEN") >>)
    /\ pc' = [pc EXCEPT ![r] = "t_commit"]
    /\ UNCHANGED <<variant, duration, resp, active, tokens, spans, apm, tables,
                   table, samples>>

\* cur.execute(...) raises sqlite3.OperationalError "no such table": the
\* injected target is no table of the database.
ExecuteNoSuchTable(r) ==
    /\ pc[r] = "t_exec"
    /\ \E f \in FailRates, t \in {"fake_db", "transactions"} \ tables : ReadFailRate(r, f, t)
    /\ Log(r, << Event(r, "no such table", NoSpan, conns[r].state = "OPEN") >>)
    /\ pc' = [pc EXCEPT ![r] = "t_except"]
    /\ UNCHANGED <<variant, duration, resp, active, tokens, spans, apm, conns,
                   tables, table, lock, samples>>

\* cur.execute(...) raises sqlite3.OperationalError "database is locked": another
\* connection kept the write lock for longer than the connection's timeout.
ExecuteLocked(r) ==
    /\ pc[r] = "t_exec"
    /\ \E f \in FailRates, t \in tables : ReadFailRate(r, f, t)
    /\ lock \notin {0, r}
    /\ Log(r, << Event(r, "database is locked", NoSpan, conns[r].state = "OPEN") >>)
    /\ pc' = [pc EXCEPT ![r] = "t_except"]
    /\ UNCHANGED <<variant, duration, resp, active, tokens, spans, apm, conns,
                   tables, table, lock, samples>>

\* conn.commit()
Commit(r) ==
    /\ pc[r] = "t_commit"
    /\ table' = table \o conns[r].pending
    /\ conns' = [conns EXCEPT ![r].pending = << >>, ![r].commits = @ + 1]
    /\ lock' = IF lock = r THEN 0 ELSE lock
    /\ Log(r, << Event(r, "commit", NoSpan, conns[r].state = "OPEN") >>)
    /\ pc' = [pc EXCEPT ![r] = "t_close"]
    /\ UNCHANGED <<variant, req, duration, resp, active, tokens, spans, apm, tables, samples>>

\* conn.close(): what was not committed is rolled back.
CloseConn(r) ==
    /\ pc[r] = "t_close"
    /\ conns' = [conns EXCEPT ![r].state = "CLOSED", ![r].closes = @ + 1,
                              ![r].pending = << >>]
    /\ lock' = IF lock = r THEN 0 ELSE lock
    /\ Log(r, << Event(r, "close", NoSpan, conns[r].state = "OPEN") >>)
    /\ pc' = [pc EXCEPT ![r] = IF variant = "otel" THEN "t_metrics" ELSE "t_label"]
    /\ UNCHANGED <<variant, req, duration, resp, active, tokens, spans, apm, tables, table, samples>>

\* transaction_counter.add(1, {"currency": txn.currency, "status": "success"})
\* transaction_value.record(txn.amount, {"currency": txn.currency})
RecordMetrics(r) ==
    /\ pc[r] = "t_metrics"
    /\ samples' = samples
                  (+) SetToBag({Sample("business.transactions.total", 1,
                                       {<<"currency", req[r].currency>>,
                                        <<"status", "success">>})})
                  (+) SetToBag({Sample("business.transaction.value", req[r].amount,
                                       {<<"currency", req[r].currency>>})})
    /\ Log(r, << Event(r, "counter.add", Current(r), IsOpen(Current(r))),
                 Event(r, "value.record", Current(r), IsOpen(Current(r))) >>)
    /\ pc' = [pc EXCEPT ![r] = "t_return"]
    /\ UNCHANGED <<variant, req, duration, resp, active, tokens, spans, apm,
                   conns, tables, table, lock>>

\* elasticapm.label(business_status="success");
\* elasticapm.set_transaction_result("SUCCESS")
LabelSuccess(r) ==
    /\ pc[r] = "t_label"
    /\ apm' = [apm EXCEPT ![r] =
                 SetTransactionResult(Label(@, {<<"business_status", "success">>}), "SUCCESS")]
    /\ Log(r, << Event(r, "label", NoSpan, apm[r].state = "OPEN"),
                 Event(r, "set_transaction_result", NoSpan, apm[r].state = "OPEN") >>)
    /\ pc' = [pc EXCEPT ![r] = "t_return"]
    /\ UNCHANGED <<variant, req, duration, resp, active, tokens, spans, conns, tables, table, lock, samples>>

\* The trace id the handler reads for its response:
\* span.get_span_context().trace_id / elasticapm.get_trace_id()
ResponseTraceId(r) ==
    IF variant = "otel" THEN spans[RootOf(r)].trace ELSE apm[r].trace

\* return {"status": "processed", "trace_id": ...}, which leaves the
\* process_payment block normally.
ReturnProcessed(r) ==
    /\ pc[r] = "t_return"
    /\ resp' = [resp EXCEPT ![r] = [NoResp EXCEPT !.code = 200, !.status = "processed",
                                                  !.trace = ResponseTraceId(r)]]
    /\ ExitSpan(r, RootOf(r), FALSE)
    /\ Log(r, ExitEvents(r, RootOf(r), FALSE))
    /\ apm' = [apm EXCEPT ![r] = EndTransaction(@)]
    /\ pc' = [pc EXCEPT ![r] = "done"]
    /\ UNCHANGED <<variant, req, duration, conns, tables, table,
                   lock, samples>>

\* except Exception as e: the error is recorded.
\*   otel: span.record_exception(e); span.set_status(Status(StatusCode.ERROR))
\*   elk:  apm_client.capture_exception(); elasticapm.label(business_status="failed");
\*         elasticapm.set_transaction_result("FAILURE")
HandleException(r) ==
    /\ pc[r] = "t_except"
    /\ IF variant = "otel"
         THEN /\ spans' = [spans EXCEPT ![RootOf(r)] = SetStatusError(RecordException(@))]
              /\ Log(r, << Event(r, "record_exception", RootOf(r), IsOpen(RootOf(r))),
                           Event(r, "set_status", RootOf(r), IsOpen(RootOf(r))) >>)
              /\ apm' = apm
         ELSE /\ apm' = [apm EXCEPT ![r] =
                    SetTransactionResult(
                        Label(CaptureException(@, Current(r)),
                              {<<"business_status", "failed">>}),
                        "FAILURE")]
              /\ Log(r, << Event(r, "capture_exception", Current(r), IsOpen(Current(r))),
                           Event(r, "label", NoSpan, apm[r].state = "OPEN"),
                           Event(r, "set_transaction_result", NoSpan, apm[r].state = "OPEN") >>)
              /\ spans' = spans
    /\ pc' = [pc EXCEPT ![r] = "t_raise"]
    /\ UNCHANGED <<variant, req, duration, resp, active, tokens,
                   conns, tables, table, lock, samples>>

\* The trace id embedded in the detail of the HTTP 500:
\*   otel: detail="Transaction failed"
\*   elk:  detail=f"Transaction failed. trace_id: {elasticapm.get_trace_id()}"
FailureDetailTraceId(r) ==
    IF variant = "otel" THEN NoTrace ELSE apm[r].trace

FailureDetail ==
    IF variant = "otel" THEN "Transaction failed" ELSE "Transaction failed. trace_id: "

\* raise HTTPException(status_code=500, ...), which leaves the process_payment
\* block by an exception.
RaiseFailed(r) ==
    /\ pc[r] = "t_raise"
    /\ resp' = [resp EXCEPT ![r] = [NoResp EXCEPT !.code = 500, !.detail = FailureDetail,
                                                  !.detail_trace = FailureDetailTraceId(r)]]
    /\ ExitSpan(r, RootOf(r), TRUE)
    /\ Log(r, ExitEvents(r, RootOf(r), TRUE))
    /\ apm' = [apm EXCEPT ![r] = EndTransaction(@)]
    /\ pc' = [pc EXCEPT ![r] = "done"]
    /\ UNCHANGED <<variant, req, duration, conns, tables, table,
                   lock, samples>>

\* -------------------------------------------------------- maintenance_task
\* len(range(n)): a negative n gives an empty range.
RangeLen(n) == IF n > 0 THEN n ELSE 0

\* Values generated per unit of mult.
ValuesPerMult == 100000

\* Number of values generated and sorted: range(mult * 100_000)
DataLen(mult) == RangeLen(mult * ValuesPerMult)

\* with ...("system_maintenance") as span:
\*   otel: span.set_attribute("maintenance.intensity", mult)
\*   elk:  elasticapm.label(maintenance_intensity=mult)
OpenMaintenance(r) ==
    /\ pc[r] = "m_root"
    /\ LET sp == NewSpan(r, "system_maintenance", Current(r)) IN
         IF variant = "otel"
           THEN /\ EnterSpan(r, RootOf(r), SetAttribute(sp, "maintenance.intensity", req[r].mult))
                /\ Log(r, << Event(r, "start", RootOf(r), TRUE),
                             EventAt("set_attribute", RootOf(r), Recording(sp), RootOf(r)) >>)
                /\ apm' = apm
           ELSE /\ EnterSpan(r, RootOf(r), sp)
                /\ apm' = [apm EXCEPT ![r] = Label(@, {<<"maintenance_intensity", req[r].mult>>})]
                /\ Log(r, << Event(r, "start", RootOf(r), TRUE),
                             EventAt("label", NoSpan, apm[r].state = "OPEN", RootOf(r)) >>)
    /\ pc' = [pc EXCEPT ![r] = "m_sort"]
    /\ UNCHANGED <<variant, req, duration, resp, conns, tables, table, lock, samples>>

\* data = [random.random() for _ in range(mult * 100_000)]; data.sort();
\* duration = (time.perf_counter() - start) * 1000
\* The list has DataLen(mult) values, none for mult <= 0, and sorting it cannot
\* raise; the elapsed time is whatever the clock measures.  Then
\* processing_duration.record(duration, {"task_type": "sort"}) /
\* elasticapm.label(task_type="sort", processing_duration_ms=duration)
SortAndRecord(r) ==
    /\ pc[r] = "m_sort"
    /\ DataLen(req[r].mult) >= 0
    /\ \E d \in Durations :
         /\ duration' = [duration EXCEPT ![r] = d]
         /\ IF variant = "otel"
              THEN /\ samples' = samples
                        (+) SetToBag({Sample("app.processing.duration", d,
                                             {<<"task_type", "sort">>})})
                   /\ apm' = apm
              ELSE /\ apm' = [apm EXCEPT ![r] =
                                 Label(@, {<<"task_type", "sort">>,
                                           <<"processing_duration_ms", d>>})]
                   /\ samples' = samples
    /\ Log(r, << Event(r, IF variant = "otel" THEN "duration.record" ELSE "duration.label",
                       Current(r), IsOpen(Current(r))) >>)
    /\ pc' = [pc EXCEPT ![r] = "m_return"]
    /\ UNCHANGED <<variant, req, resp, active, tokens, spans, conns, tables, table, lock>>

\* return {"status": "done", "duration_ms": duration}
ReturnDone(r) ==
    /\ pc[r] = "m_return"
    /\ resp' = [resp EXCEPT ![r] = [NoResp EXCEPT !.code = 200, !.status = "done",
                                                  !.duration_ms = duration[r]]]
    /\ ExitSpan(r, RootOf(r), FALSE)
    /\ Log(r, ExitEvents(r, RootOf(r), FALSE))
    /\ apm' = [apm EXCEPT ![r] = EndTransaction(@)]
    /\ pc' = [pc EXCEPT ![r] = "done"]
    /\ UNCHANGED <<variant, req, duration, conns, tables, table,
                   lock, samples>>

\* ------------------------------------------------------------------- Next
process_transaction(r) ==
    \/ OpenPayment(r)
    \/ OpenFraudCheck(r)
    \/ CloseFraudCheck(r)
    \/ get_conn(r)
    \/ ExecuteInsert(r)
    \/ ExecuteNoSuchTable(r)
    \/ ExecuteLocked(r)
    \/ Commit(r)
    \/ CloseConn(r)
    \/ RecordMetrics(r)
    \/ LabelSuccess(r)
    \/ ReturnProcessed(r)
    \/ HandleException(r)
    \/ RaiseFailed(r)

maintenance_task(r) ==
    \/ OpenMaintenance(r)
    \/ SortAndRecord(r)
    \/ ReturnDone(r)

Next ==
    \E r \in Reqs :
        \/ ReceiveTransaction(r)
        \/ ReceiveMaintenance(r)
        \/ process_transaction(r)
        \/ maintenance_task(r)

Spec == Init /\ [][Next]_vars

\* ================================================================ properties
IsTxn(r) == req[r].kind = "txn"
IsMaint(r) == req[r].kind = "maint"
Done(r) == pc[r] = "done"
Processed(r) == IsTxn(r) /\ Done(r) /\ resp[r].code = 200
Failed(r) == IsTxn(r) /\ Done(r) /\ resp[r].code = 500

\* Spans request r has created.
SpansOf(r) == {s \in SpanIds : s[1] = r /\ spans[s].state # "NONE"}
NamedSpans(r, name) == {s \in SpansOf(r) : spans[s].name = name}

\* Positions in events[r] of the calls named in ops.
EventsOf(r, ops) == {i \in DOMAIN events[r] : events[r][i].op \in ops}
SpanEvents(r, op, sid) ==
    {i \in DOMAIN events[r] : events[r][i].op = op /\ events[r][i].span = sid}
\* Every call of kind opsA precedes every call of kind opsB.
Precede(r, A, B) == \A i \in A, j \in B : i < j

\* Number of samples of an instrument handed to the meter.
SamplesNamed(name) == {x \in BagToSet(samples) : x.name = name}
SampleCount(name) == BagCardinality([x \in SamplesNamed(name) |-> samples[x]])
SampleCountLabelled(name, label) ==
    BagCardinality([x \in {y \in SamplesNamed(name) : label \in y.labels} |-> samples[x]])

PersistenceOps == {"connect", "execute", "no such table", "database is locked",
                   "commit", "close"}
MutationOps == {"set_attribute", "record_exception", "set_status", "label",
                "set_transaction_result", "capture_exception"}
\* Positions of process_transaction after the fraud check and before its end.
AfterFraudPcs == {"t_conn", "t_exec", "t_commit", "t_close", "t_metrics", "t_label",
                  "t_return", "t_except", "t_raise"}
\* Positions of process_transaction on the path of a successful write.
SuccessPcs == {"t_commit", "t_close", "t_metrics", "t_label", "t_return"}

\* C1: every process_transaction request creates exactly one root span
\* process_payment, which is open while the handler runs and has been closed
\* exactly once when the handler has returned or raised, the HTTP 500 outcome
\* included.
C1_RootSpanClosedOnce ==
    \A r \in Reqs : IsTxn(r) =>
        /\ Cardinality(NamedSpans(r, "process_payment")) = IF pc[r] = "t_root" THEN 0 ELSE 1
        /\ \A s \in NamedSpans(r, "process_payment") :
             /\ s = <<r, 1>>
             /\ spans[s].parent = NoSpan
             /\ spans[s].ends = IF Done(r) THEN 1 ELSE 0
             /\ spans[s].state = IF Done(r) THEN "CLOSED" ELSE "OPEN"
             /\ Cardinality(SpanEvents(r, "end", s)) = spans[s].ends
        /\ Done(r) => resp[r].code \in {200, 500}

C1_Witness ==
    \E r \in Reqs : Failed(r) /\ spans[<<r, 1>>].name = "process_payment"
                    /\ spans[<<r, 1>>].state = "CLOSED" /\ spans[<<r, 1>>].ends = 1

\* C2: with fail_rate = 1.0 every process_transaction call ends in HTTP 500, and
\* with fail_rate = 0.0 every call whose write to `transactions` did not itself
\* fail ends in HTTP 200 "processed", whatever value was drawn.
C2_FailRateExtremes ==
    \A r \in Reqs : (IsTxn(r) /\ Done(r)) =>
        /\ req[r].fail_rate = FullRate => resp[r].code = 500
        /\ (req[r].fail_rate = 0 /\ EventsOf(r, {"database is locked"}) = {}) =>
              (resp[r].code = 200 /\ resp[r].status = "processed")

C2_Witness ==
    \E r1, r2 \in Reqs :
        /\ Failed(r1) /\ req[r1].fail_rate = FullRate
        /\ Processed(r2) /\ req[r2].fail_rate = 0

\* C3: in the OpenTelemetry service, once N process_transaction requests have
\* completed N transactions_total samples have been emitted, and the samples
\* labelled status=success / status=failure are as many as the requests that
\* succeeded / failed.
C3_OneCounterSamplePerRequest ==
    (variant = "otel" /\ \A r \in Reqs : pc[r] \in {"idle", "done"}) =>
        /\ SampleCount("business.transactions.total")
             = Cardinality({r \in Reqs : IsTxn(r) /\ Done(r)})
        /\ SampleCountLabelled("business.transactions.total", <<"status", "success">>)
             = Cardinality({r \in Reqs : Processed(r)})
        /\ SampleCountLabelled("business.transactions.total", <<"status", "failure">>)
             = Cardinality({r \in Reqs : Failed(r)})

\* C4: the response of a process_transaction request carries the trace id of
\* the request's root span on both outcome paths: in the body of the HTTP 200 and
\* in the message of the HTTP 500.
C4_FailureCarriesCorrelationId ==
    \A r \in Reqs :
        /\ Processed(r) => resp[r].trace = spans[<<r, 1>>].trace
        /\ Failed(r) => resp[r].detail_trace = spans[<<r, 1>>].trace

\* C5: the table `transactions` holds exactly one committed row for every
\* request whose write was committed, with the request's own amount and currency
\* and status SUCCESS; every request answered "processed" has its row, and a
\* request that failed with HTTP 500 has none.
C5_RoundTrip ==
    /\ \A i \in DOMAIN table : table[i].id = i
    /\ Len(table) = Cardinality({r \in Reqs : conns[r].commits > 0})
    /\ \A r \in Reqs :
         /\ conns[r].commits > 0 =>
              /\ conns[r].commits = 1
              /\ conns[r].lastrowid \in DOMAIN table
              /\ table[conns[r].lastrowid] =
                    [id |-> conns[r].lastrowid, amount |-> req[r].amount,
                     currency |-> req[r].currency, status |-> "SUCCESS"]
         /\ Processed(r) => conns[r].commits = 1
         /\ Failed(r) => conns[r].commits = 0
    /\ \A r1, r2 \in Reqs :
         (r1 # r2 /\ conns[r1].commits > 0 /\ conns[r2].commits > 0) =>
             conns[r1].lastrowid # conns[r2].lastrowid

C5_Witness ==
    \E r1, r2 \in Reqs :
        /\ Processed(r1) /\ req[r1].currency = "USD"
        /\ Failed(r2)
        /\ Len(table) = 1

\* C6: the current span is request-local under every interleaving: a span's
\* parent, if any, is a span of the same request (the parent of fraud_check is
\* the process_payment span of its own request), every call a request makes
\* targets its own spans, attributes and errors on a request's spans are the
\* request's own, and the trace id a request returns is that of its own root
\* span and of no other request's.
C6_RequestLocalContext ==
    /\ \A s \in SpanIds : spans[s].state # "NONE" =>
         /\ spans[s].parent # NoSpan => spans[s].parent[1] = s[1]
         /\ spans[s].name = "fraud_check" =>
              (spans[s].parent = <<s[1], 1>> /\ spans[<<s[1], 1>>].name = "process_payment")
         /\ spans[s].name \in {"process_payment", "system_maintenance"} =>
              spans[s].parent = NoSpan
         /\ spans[s].trace = spans[<<s[1], 1>>].trace
    /\ \A r \in Reqs :
         /\ \A i \in DOMAIN events[r] :
              /\ events[r][i].span # NoSpan => events[r][i].span[1] = r
              /\ events[r][i].cur # NoSpan => events[r][i].cur[1] = r
         /\ spans[<<r, 1>>].attrs \subseteq
                {<<"transaction.currency", req[r].currency>>,
                 <<"transaction.amount", req[r].amount>>,
                 <<"maintenance.intensity", req[r].mult>>}
         /\ spans[<<r, 2>>].attrs = {}
         /\ (spans[<<r, 1>>].errors > 0 \/ spans[<<r, 2>>].errors > 0 \/ apm[r].errors # {})
               => (pc[r] = "t_raise" \/ Failed(r))
         /\ apm[r].errors \subseteq {<<r, 1>>}
         /\ Processed(r) =>
              /\ resp[r].trace = spans[<<r, 1>>].trace
              /\ \A r2 \in Reqs \ {r} :
                   spans[<<r2, 1>>].state # "NONE" => spans[<<r2, 1>>].trace # resp[r].trace

C6_Witness ==
    \E r1, r2 \in Reqs :
        /\ r1 # r2
        /\ pc[r1] = "t_burn" /\ pc[r2] = "t_burn"
        /\ spans[<<r1, 2>>].parent = <<r1, 1>>
        /\ spans[<<r2, 2>>].parent = <<r2, 1>>

\* C7: maintenance_task has no failure outcome: for every mult, negative and
\* zero included, it opens exactly one root span system_maintenance, records the
\* duration exactly once, labelled task_type = "sort", while that span is open,
\* closes the span exactly once and returns status "done"; it never touches the
\* database and never emits a transactions_total or transaction_value sample.
C7_MaintenanceNeverFails ==
    /\ \A r \in Reqs : IsMaint(r) =>
         /\ pc[r] \in {"m_root", "m_sort", "m_return", "done"}
         /\ conns[r].state = "NONE"
         /\ EventsOf(r, PersistenceOps \cup {"counter.add", "value.record"}) = {}
         /\ SpansOf(r) \subseteq {<<r, 1>>}
         /\ \A i \in EventsOf(r, {"duration.record", "duration.label"}) :
              events[r][i].open /\ events[r][i].span = <<r, 1>>
         /\ pc[r] \in {"m_return", "done"} =>
              /\ Cardinality(EventsOf(r, {"duration.record", "duration.label"})) = 1
              /\ variant = "elk" =>
                   {<<"task_type", "sort">>, <<"processing_duration_ms", duration[r]>>}
                       \subseteq apm[r].labels
         /\ Done(r) =>
              /\ resp[r].code = 200 /\ resp[r].status = "done"
              /\ resp[r].duration_ms = duration[r]
              /\ SpansOf(r) = {<<r, 1>>}
              /\ spans[<<r, 1>>].name = "system_maintenance"
              /\ spans[<<r, 1>>].parent = NoSpan
              /\ spans[<<r, 1>>].state = "CLOSED"
              /\ spans[<<r, 1>>].ends = 1
    /\ SampleCount("app.processing.duration")
         = (IF variant = "otel"
              THEN Cardinality({r \in Reqs : IsMaint(r) /\ pc[r] \in {"m_return", "done"}})
              ELSE 0)
    /\ \A x \in SamplesNamed("app.processing.duration") : x.labels = {<<"task_type", "sort">>}
    /\ SampleCount("business.transactions.total") + SampleCount("business.transaction.value")
         = 2 * Cardinality({r \in Reqs : IsTxn(r) /\ EventsOf(r, {"counter.add"}) # {}})

C7_Witness ==
    \E r1, r2 \in Reqs :
        /\ IsMaint(r1) /\ Done(r1) /\ req[r1].mult < 0
        /\ IsMaint(r2) /\ Done(r2) /\ req[r2].mult = 0
        /\ resp[r1].status = "done" /\ resp[r2].status = "done"

\* C8: within one process_transaction request the spans are nested and ordered:
\* process_payment is opened first; fraud_check is opened as its child while it
\* is the current span, and becomes the current span; fraud_check is closed
\* before the database is touched and before process_payment is closed; after
\* that the current span is process_payment again, so the write and its error
\* belong to the root span.
C8_SpansNested ==
    \A r \in Reqs : IsTxn(r) =>
        /\ pc[r] = "t_fraud" =>
             (active[r] = <<r, 1>> /\ spans[<<r, 2>>].state = "NONE")
        /\ pc[r] = "t_burn" =>
             /\ active[r] = <<r, 2>>
             /\ spans[<<r, 2>>].state = "OPEN" /\ spans[<<r, 2>>].name = "fraud_check"
             /\ spans[<<r, 2>>].parent = <<r, 1>>
             /\ spans[<<r, 1>>].state = "OPEN"
        /\ pc[r] \in AfterFraudPcs =>
             /\ active[r] = <<r, 1>>
             /\ spans[<<r, 2>>].state = "CLOSED" /\ spans[<<r, 2>>].ends = 1
             /\ spans[<<r, 1>>].state = "OPEN"
        /\ Done(r) =>
             /\ active[r] = NoSpan
             /\ spans[<<r, 2>>].state = "CLOSED" /\ spans[<<r, 1>>].state = "CLOSED"
        /\ LET startChild == SpanEvents(r, "start", <<r, 2>>)
                endChild == SpanEvents(r, "end", <<r, 2>>)
                persist == EventsOf(r, PersistenceOps \cup {"record_exception", "set_status",
                                                            "capture_exception"})
           IN  /\ Precede(r, SpanEvents(r, "start", <<r, 1>>), startChild)
               /\ \A i \in startChild : events[r][i].cur = <<r, 1>>
               /\ Precede(r, startChild, endChild)
               /\ Precede(r, endChild, persist)
               /\ Precede(r, endChild \cup persist, SpanEvents(r, "end", <<r, 1>>))
               /\ \A i \in persist :
                    /\ events[r][i].cur = <<r, 1>>
                    /\ events[r][i].span \in {NoSpan, <<r, 1>>}
        /\ spans[<<r, 2>>].errors = 0 /\ spans[<<r, 2>>].status = "UNSET"

C8_Witness ==
    \E r \in Reqs :
        /\ IsTxn(r) /\ pc[r] = "t_except"
        /\ active[r] = <<r, 1>>
        /\ spans[<<r, 2>>].state = "CLOSED"
        /\ spans[<<r, 1>>].state = "OPEN"

\* C9: a span (in the Elastic APM service, the transaction that takes the
\* labels) is mutated only while it is open: every set_attribute, label,
\* record_exception, capture_exception and set-status call targets something
\* opened and not yet closed.  When the write fails the error is recorded on the
\* root span and the failed status is set before the root span is closed and
\* before the HTTP 500 leaves the handler; when it succeeds no error is recorded
\* on any span.
C9_MutationOnlyWhileOpen ==
    \A r \in Reqs :
        /\ \A i \in EventsOf(r, MutationOps) : events[r][i].open
        /\ IsTxn(r) /\ (pc[r] = "t_raise" \/ Failed(r)) =>
             /\ variant = "otel" =>
                  /\ spans[<<r, 1>>].errors >= 1 /\ spans[<<r, 1>>].status = "ERROR"
                  /\ SpanEvents(r, "record_exception", <<r, 1>>) # {}
                  /\ SpanEvents(r, "set_status", <<r, 1>>) # {}
             /\ variant = "elk" =>
                  /\ apm[r].errors = {<<r, 1>>} /\ apm[r].result = "FAILURE"
                  /\ SpanEvents(r, "capture_exception", <<r, 1>>) # {}
             /\ spans[<<r, 2>>].errors = 0
             /\ Precede(r, EventsOf(r, {"record_exception", "capture_exception", "set_status",
                                        "set_transaction_result"}),
                        SpanEvents(r, "end", <<r, 1>>))
             /\ pc[r] = "t_raise" => (spans[<<r, 1>>].state = "OPEN" /\ resp[r].code = 0)
        /\ IsTxn(r) /\ (pc[r] \in SuccessPcs \/ Processed(r)) =>
             /\ \A s \in SpansOf(r) : spans[s].errors = 0 /\ spans[s].status = "UNSET"
             /\ apm[r].errors = {}
             /\ EventsOf(r, {"record_exception", "capture_exception", "set_status"}) = {}

C9_Witness ==
    \E r1, r2 \in Reqs :
        /\ IsTxn(r1) /\ pc[r1] = "t_raise" /\ spans[<<r1, 1>>].state = "OPEN"
        /\ EventsOf(r1, {"record_exception", "capture_exception"}) # {}
        /\ Processed(r2)

\* C10: every connection a process_transaction request opened with get_conn has
\* been closed exactly once when the handler has returned or raised, after a
\* successful write and after a failed one alike, and on the success path the
\* commit precedes the close.
C10_ConnectionClosedOnce ==
    \A r \in Reqs : (IsTxn(r) /\ Done(r)) =>
        /\ conns[r].state = "CLOSED"
        /\ conns[r].closes = 1
        /\ Precede(r, EventsOf(r, {"commit"}), EventsOf(r, {"close"}))

====
